---- MODULE Spec2Model ----
(***************************************************************************)
(* A model of the TCP gateway of src/main.go: the per-connection pipeline  *)
(* handle() = borrow a bufio.Reader from bufioPool, handshake(), dial()    *)
(* with agentInit(), release the reader, write 200, relay.                 *)
(*                                                                         *)
(* Bytes are small integers.  A client socket is the pair cliSent (every   *)
(* byte the client has written, in order) and nread (how many of them the  *)
(* gateway has taken out of the socket, through the bufio.Reader or        *)
(* through safeCopy).  A backend socket is agentRecv (what the backend     *)
(* has received) and backSentN / backReadN (the backend's k-th byte has    *)
(* the value BackByte(k)).                                                 *)
(*                                                                         *)
(* Specifications: Spec (one connection), SpecPool (two connections on one *)
(* pool), SpecLoop (accept() and loop() alone), SpecAddr (remote addresses *)
(* of every length), SpecConfig (every GW_DIAL_RETRY and GW_DIAL_TIMEOUT), *)
(* SpecLive (one connection, goroutines scheduled fairly) and SpecFault    *)
(* (two connections, fairly scheduled, with runtime failures).             *)
(***************************************************************************)
EXTENDS Integers, Sequences, FiniteSets, TLC

\* ------------------------------------------------------------------ bounds
MaxInput == 5       \* bytes written by the client of a single connection
MaxBackend == 2     \* bytes written by the backend of a single connection
MaxRetry == 2       \* largest GW_DIAL_RETRY
PoolInput == 3      \* bytes written by the clients of two connections
PoolBackend == 1    \* bytes written by the backends of two connections
MaxTimeout == 2     \* largest GW_DIAL_TIMEOUT
MaxTempErr == 10    \* consecutive temporary errors of listener.Accept
MaxAddrLen == 255   \* longest remote-address string
SmallInput == 2     \* client bytes, where the address or the configuration varies
SmallBackend == 1   \* backend bytes, where the address or the configuration varies
LiveInput == 3      \* client bytes, under fairness
LiveBackend == 1    \* backend bytes, under fairness
FaultInput == 2     \* client bytes, with runtime failures
FaultBackend == 1   \* backend bytes, with runtime failures

\* The connections, numbered in the order loop() accepts them.  Spec runs
\* the first alone; SpecPool runs both, concurrently, on one bufioPool.
Conns == 1..2
ReaderIds == Conns  \* a handler allocates at most one reader (main.go:186)

\* nil, for a *bufio.Reader, its io.Reader and the conn it reads
Nil == 0

\* ----------------------------------------------------------- wire values
codeOK == <<50, 48, 48>>
codeBadReq == <<52, 48, 48>>
codeBadAddr == <<52, 48, 49>>
codeDialErr == <<53, 48, 50>>
codeDialTimeout == <<53, 48, 51>>
StatusTokens == {codeOK, codeBadReq, codeBadAddr, codeDialErr, codeDialTimeout}

\* The bytes a client may write: the binary marker 0, the bytes 1 and 2
\* (a length byte, a ciphertext byte, a base64 character), and '\n'.
NewLine == <<10>>
ClientBytes == {0, 1, 2, NewLine[1]}

\* the k-th byte a client writes after its frame
PayloadByte(k) == 20 + k

\* the k-th byte a backend writes
BackByte(k) == 100 + k
BackBytes(from, to) == [i \in 1..(to - from) |-> BackByte(from + i)]

\* an address string of n bytes
Addr(n) == [i \in 1..n |-> 48 + (i % 10)]

\* ------------------------------------------------------------ the cipher
\* aes256cbc.Decrypt: the ciphertext is accepted or rejected.  Accepted
\* here: a non-empty ciphertext of bytes 1 only.
Decrypt(bin) == Len(bin) > 0 /\ \A i \in 1..Len(bin) : bin[i] = 1

\* aes256cbc.DecryptBase64 of a line: the line without its '\n' is
\* base64-decoded (bytes 1 and 2 are base64 characters standing for the raw
\* bytes 1 and 2; any other byte is not base64) and then decrypted.
DecryptBase64(line) ==
    LET body == SubSeq(line, 1, Len(line) - 1)
    IN  /\ \A i \in 1..Len(body) : body[i] \in {1, 2}
        /\ Decrypt(body)

\* ------------------------------------------------------------------ state
VARIABLES
    cfgDialRetry,   \* main.go:26, set by config()
    cfgDialTimeout, \* main.go:27, set by config(), in seconds
    remoteAddr,     \* per connection: conn.RemoteAddr().String()
    tempDelay,      \* accept's local `tempDelay`, in milliseconds
    sleeps,         \* per call of accept(): the delays it has slept
    listening,      \* loop() is running (it has not returned)
    exited,         \* the process has ended by a panic nobody recovered:
                    \* no goroutine of the gateway takes a step any more
    puts,           \* per connection: the calls of bufioPool.Put by handle
    pending,        \* connections the listener has still to deliver
    inLeft,         \* bytes the clients may still write
    backLeft,       \* bytes the backends may still write
    bufioPool,      \* main.go:39: the readers in the pool
    rdConn,         \* per reader: the conn it reads (Nil after Reset(nil))
    rdBuf,          \* per reader: its buffered, unread bytes (buf[r:w])
    pc,             \* per connection: where handle() is
    reader,         \* handle's local `reader` (Nil before the borrow)
    bufioReleased,  \* handle's local `bufioReleased`
    binN,           \* handshakeBinary's n
    bin,            \* handshakeBinary's bin[:k] read so far by io.ReadFull
    dials,          \* the outcomes of the net.DialTimeout calls so far
    agent,          \* the backend conn: "nil", "open" or "closed" (by us)
    agentDeferred,  \* `defer agent.Close()` is registered (main.go:206)
    deadline,       \* the backend conn carries a write deadline
    copyPc,         \* the goroutine `go safeCopy(agent, conn)`
    panicked,       \* handle recovered a panic (main.go:177)
    tokens,         \* the status tokens handle passed to conn.Write
    connClosed,     \* conn.Close() was called (main.go:176)
    cliSent,        \* client side: every byte the client wrote
    cliState,       \* client side: "open", "eof" (write side shut), "rst"
    nread,          \* bytes of cliSent taken out of the socket
    cliRecv,        \* client side: every byte the client received
    leftover,       \* the bytes agentInit peeked and wrote (main.go:314)
    agentRecv,      \* backend side: every byte the backend received
    backState,      \* backend side: "open" or "closed"
    backSentN,      \* backend side: bytes written
    backReadN       \* bytes of the backend's the gateway has read

readerVars == <<bufioPool, rdConn, rdBuf, reader, bufioReleased>>
hsVars == <<binN, bin>>
dialVars == <<dials, agent, agentDeferred, deadline>>
cliVars == <<cliSent, cliState>>
backVars == <<backState, backSentN>>
outVars == <<tokens, cliRecv>>
envVars == <<pending, inLeft, backLeft>>
cfgVars == <<cfgDialRetry, cfgDialTimeout, remoteAddr>>
loopVars == <<tempDelay, sleeps, listening>>
vars == <<cfgVars, loopVars, exited, puts, envVars, pc, readerVars, hsVars, dialVars, copyPc, panicked,
          connClosed, cliVars, nread, outVars, leftover, agentRecv, backVars,
          backReadN>>

\* conn.RemoteAddr().String() of connection c
RemoteAddr(c) == remoteAddr[c]

\* --------------------------------------------------------------- config()
cfgDialRetryDefault == 1

\* The values of GW_DIAL_RETRY: <<>> is unset, <<n>> the text of n.
RetryEnv == {<<>>} \cup {<<n>> : n \in (0 - 1)..MaxRetry}

PoolRetryEnv == {<<>>, <<0 - 1>>}

\* GW_DIAL_RETRY and GW_DIAL_TIMEOUT unset
Unset == {<<>>}

\* The values of GW_DIAL_TIMEOUT, in seconds.
TimeoutEnv == {<<>>} \cup {<<n>> : n \in (0 - 1)..MaxTimeout}

\* main.go:77-85
config(v) ==
    IF v = <<>> THEN cfgDialRetryDefault
    ELSE IF v[1] = 0 THEN 1 ELSE v[1]

timeoutDefault == 3

\* main.go:88-98: the local `timeout` is 0 unless GW_DIAL_TIMEOUT is set,
\* and 0 is replaced by 3
configTimeout(v) ==
    LET timeout == IF v = <<>> THEN 0 ELSE v[1]
    IN  IF timeout = 0 THEN timeoutDefault ELSE timeout

\* ---------------------------------------------------------------- helpers
IsPrefix(s, t) == Len(s) <= Len(t) /\ SubSeq(t, 1, Len(s)) = s

\* index of the first '\n' of s, 0 when there is none
FirstNewLine(s) ==
    IF \E i \in 1..Len(s) : s[i] = NewLine[1]
    THEN CHOOSE i \in 1..Len(s) : s[i] = NewLine[1] /\ \A j \in 1..(i - 1) : s[j] # NewLine[1]
    ELSE 0

\* the bytes waiting in the client socket
Unread(c) == SubSeq(cliSent[c], nread[c] + 1, Len(cliSent[c]))

\* conn.Read would return bytes
ConnHasData(c) == cliState[c] # "rst" /\ Unread(c) # <<>>

\* conn.Read would return an error (io.EOF or a reset)
ConnReadErr(c) == cliState[c] = "rst" \/ (cliState[c] = "eof" /\ Unread(c) = <<>>)

\* conn.Write(b): the written bytes reach the client unless it has reset
ConnWrite(c, b) == [cliRecv EXCEPT ![c] = IF cliState[c] = "rst" THEN @ ELSE @ \o b]

\* conn.Write of a status token
WriteToken(c, tok) ==
    /\ tokens' = [tokens EXCEPT ![c] = Append(@, tok)]
    /\ cliRecv' = ConnWrite(c, tok)

\* bufio.Reader.Reset(r): drops the buffered bytes, reads r from now on
ResetBuf(r) == [rdBuf EXCEPT ![r] = <<>>]
ResetConn(r, c) == [rdConn EXCEPT ![r] = c]

\* ------------------------------------------------------------------- Init
InitWith(env, tenv, lens, n, i, b) ==
    /\ cfgDialRetry \in {config(v) : v \in env}
    /\ cfgDialTimeout \in {configTimeout(v) : v \in tenv}
    /\ remoteAddr \in {[c \in Conns |-> Addr(IF c = 1 THEN len ELSE c)] : len \in lens}
    /\ tempDelay = 0
    /\ sleeps = << <<>> >>
    /\ listening = TRUE
    /\ exited = FALSE
    /\ puts = [c \in Conns |-> 0]
    /\ pending = n
    /\ inLeft = i
    /\ backLeft = b
    /\ bufioPool = {}
    /\ rdConn = [r \in ReaderIds |-> Nil]
    /\ rdBuf = [r \in ReaderIds |-> <<>>]
    /\ pc = [c \in Conns |-> "idle"]
    /\ reader = [c \in Conns |-> Nil]
    /\ bufioReleased = [c \in Conns |-> FALSE]
    /\ binN = [c \in Conns |-> 0]
    /\ bin = [c \in Conns |-> <<>>]
    /\ dials = [c \in Conns |-> <<>>]
    /\ agent = [c \in Conns |-> "nil"]
    /\ agentDeferred = [c \in Conns |-> FALSE]
    /\ deadline = [c \in Conns |-> FALSE]
    /\ copyPc = [c \in Conns |-> "none"]
    /\ panicked = [c \in Conns |-> FALSE]
    /\ tokens = [c \in Conns |-> <<>>]
    /\ connClosed = [c \in Conns |-> FALSE]
    /\ cliSent = [c \in Conns |-> <<>>]
    /\ cliState = [c \in Conns |-> "open"]
    /\ nread = [c \in Conns |-> 0]
    /\ cliRecv = [c \in Conns |-> <<>>]
    /\ leftover = [c \in Conns |-> <<>>]
    /\ agentRecv = [c \in Conns |-> <<>>]
    /\ backState = [c \in Conns |-> "open"]
    /\ backSentN = [c \in Conns |-> 0]
    /\ backReadN = [c \in Conns |-> 0]

\* one connection, under every GW_DIAL_RETRY
Init == InitWith(RetryEnv, Unset, {1}, 1, MaxInput, MaxBackend)

\* two connections, GW_DIAL_RETRY unset or negative
InitPool == InitWith(PoolRetryEnv, Unset, {1}, 2, PoolInput, PoolBackend)


\* ----------------------------------------------------------------- loop()
\* main.go:153-170 and 146: listener.Accept returns a connection; accept
\* zeroes tempDelay and returns it, loop starts `go handle(conn)` and calls
\* accept again.
Accept(c) ==
    /\ ~exited
    /\ listening
    /\ pending > 0
    /\ pc[c] = "idle"
    /\ \A d \in Conns : d < c => pc[d] # "idle"
    /\ pending' = pending - 1
    /\ tempDelay' = 0
    /\ sleeps' = Append(sleeps, <<>>)
    /\ pc' = [pc EXCEPT ![c] = "get"]
    /\ UNCHANGED <<cfgVars, listening, exited, puts, inLeft, backLeft, readerVars, hsVars, dialVars, copyPc, panicked,
                   connClosed, cliVars, nread, outVars, leftover, agentRecv,
                   backVars, backReadN>>

firstDelay == 5
maxDelay == 1000

\* main.go:156-160: the first delay, or the last one doubled
Doubled(d) == IF d = 0 THEN firstDelay ELSE d * 2

\* a delay without its cap
Uncapped(d) == d

\* main.go:161-163
Capped(d) == IF d > maxDelay THEN maxDelay ELSE d

\* main.go:154-165: listener.Accept returns a temporary error; accept
\* computes the delay, sleeps it and tries again.
AcceptTemporary ==
    /\ ~exited
    /\ listening
    /\ Len(sleeps[Len(sleeps)]) < MaxTempErr
    /\ tempDelay' = Capped(Doubled(tempDelay))
    /\ sleeps' = [sleeps EXCEPT ![Len(sleeps)] = Append(@, Capped(Doubled(tempDelay)))]
    /\ UNCHANGED <<cfgVars, listening, exited, puts, envVars, pc, readerVars, hsVars,
                   dialVars, copyPc, panicked, connClosed, cliVars, nread, outVars,
                   leftover, agentRecv, backVars, backReadN>>

\* main.go:167 and 142-145, 139: listener.Accept returns an error that is
\* not temporary; accept returns it, loop returns and closes the listener.
AcceptFail ==
    /\ ~exited
    /\ listening
    /\ listening' = FALSE
    /\ UNCHANGED <<cfgVars, tempDelay, sleeps, exited, puts, envVars, pc, readerVars,
                   hsVars, dialVars, copyPc, panicked, connClosed, cliVars, nread,
                   outVars, leftover, agentRecv, backVars, backReadN>>

\* --------------------------------------------------------------- handle()
\* main.go:184: reader.Reset(conn) on a reader taken from the pool
BorrowReset(r, c) ==
    /\ rdConn' = ResetConn(r, c)
    /\ rdBuf' = ResetBuf(r)

\* main.go:182-187.  sync.Pool.Get may return nil whatever was Put, and
\* then a reader is allocated; reader c is the one handler c allocates.
BorrowReader(c) ==
    /\ ~exited
    /\ pc[c] = "get"
    /\ \/ \E r \in bufioPool :
            /\ bufioPool' = bufioPool \ {r}
            /\ reader' = [reader EXCEPT ![c] = r]
            /\ BorrowReset(r, c)
       \/ /\ reader' = [reader EXCEPT ![c] = c]
          /\ rdConn' = [rdConn EXCEPT ![c] = c]
          /\ rdBuf' = [rdBuf EXCEPT ![c] = <<>>]
          /\ UNCHANGED bufioPool
    /\ pc' = [pc EXCEPT ![c] = "hs"]
    /\ UNCHANGED <<cfgVars, loopVars, exited, puts, envVars, bufioReleased, hsVars, dialVars, copyPc,
                   panicked, connClosed, cliVars, nread, outVars, leftover,
                   agentRecv, backVars, backReadN>>

\* a failed handshake after which handle goes on to dial
HandshakeFailGoesOn(c, tok) ==
    /\ WriteToken(c, tok)
    /\ pc' = [pc EXCEPT ![c] = "dial"]

\* A handshake step that fails: the token is written and handshake returns
\* the error, so handle returns (main.go:197-199).
HandshakeFail(c, tok) ==
    /\ WriteToken(c, tok)
    /\ pc' = [pc EXCEPT ![c] = "ret"]

\* The reader's buffer after the read a ReadByte / Read / ReadSlice makes
\* when it needs bytes: none when bytes are buffered, else one conn.Read.
Buffered(c) == rdBuf[reader[c]]
AfterFill(c) == IF Buffered(c) # <<>> THEN Buffered(c) ELSE Unread(c)
NreadAfterFill(c) ==
    [nread EXCEPT ![c] = IF Buffered(c) # <<>> THEN @ ELSE Len(cliSent[c])]

\* a first read that fails and returns without a token
FirstReadFailSilent(c) ==
    /\ pc' = [pc EXCEPT ![c] = "ret"]
    /\ UNCHANGED outVars

\* main.go:221-225: the first reader.ReadByte failed
FirstReadFail(c) == HandshakeFail(c, codeBadReq)

\* main.go:220-235.  UnreadByte right after a successful ReadByte cannot
\* fail, so the return of main.go:231 is not a step of the model.
HandshakeFirst(c) ==
    /\ ~exited
    /\ pc[c] = "hs"
    /\ \/ /\ Buffered(c) = <<>>
          /\ ConnReadErr(c)
          /\ FirstReadFail(c)
          /\ UNCHANGED <<rdBuf, nread>>
       \/ /\ Buffered(c) # <<>> \/ ConnHasData(c)
          /\ nread' = NreadAfterFill(c)
          /\ IF Head(AfterFill(c)) = 0
             THEN /\ rdBuf' = [rdBuf EXCEPT ![reader[c]] = Tail(AfterFill(c))]
                  /\ pc' = [pc EXCEPT ![c] = "binLen"]
             ELSE /\ rdBuf' = [rdBuf EXCEPT ![reader[c]] = AfterFill(c)]
                  /\ pc' = [pc EXCEPT ![c] = "text"]
          /\ UNCHANGED outVars
    /\ UNCHANGED <<cfgVars, loopVars, exited, puts, envVars, bufioPool, rdConn, reader, bufioReleased, binN,
                   bin, dialVars, copyPc, panicked, connClosed, cliVars,
                   leftover, agentRecv, backVars, backReadN>>

\* main.go:238-243: the length byte
HandshakeBinaryLen(c) ==
    /\ ~exited
    /\ pc[c] = "binLen"
    /\ \/ /\ Buffered(c) = <<>>
          /\ ConnReadErr(c)
          /\ HandshakeFail(c, codeBadReq)
          /\ UNCHANGED <<rdBuf, nread, binN>>
       \/ /\ Buffered(c) # <<>> \/ ConnHasData(c)
          /\ nread' = NreadAfterFill(c)
          /\ binN' = [binN EXCEPT ![c] = Head(AfterFill(c))]
          /\ rdBuf' = [rdBuf EXCEPT ![reader[c]] = Tail(AfterFill(c))]
          /\ pc' = [pc EXCEPT ![c] = "binBody"]
          /\ UNCHANGED outVars
    /\ UNCHANGED <<cfgVars, loopVars, exited, puts, envVars, bufioPool, rdConn, reader, bufioReleased, bin,
                   dialVars, copyPc, panicked, connClosed, cliVars, leftover,
                   agentRecv, backVars, backReadN>>

\* a short read reported as a bad address
ShortReadTokenAs401 == codeBadAddr

\* main.go:247-250, the token of a short read of the ciphertext
ShortReadToken == codeBadReq

\* a rejected ciphertext reported as a bad request
BadAddrTokenAs400 == codeBadReq

\* main.go:252-255 and 265-268, the token of a rejected ciphertext
BadAddrToken == codeBadAddr

\* main.go:245-256: io.ReadFull(reader, bin) reads until bin holds n bytes
\* (no read at all when n = 0), then the ciphertext is decrypted.
HandshakeBinaryBody(c) ==
    /\ ~exited
    /\ pc[c] = "binBody"
    /\ \/ /\ Len(bin[c]) = binN[c]
          /\ IF Decrypt(bin[c])
             THEN /\ pc' = [pc EXCEPT ![c] = "dial"]
                  /\ UNCHANGED outVars
             ELSE HandshakeFail(c, BadAddrToken)
          /\ UNCHANGED <<rdBuf, nread, bin>>
       \/ /\ Len(bin[c]) < binN[c]
          /\ Buffered(c) = <<>>
          /\ ConnReadErr(c)
          /\ HandshakeFail(c, ShortReadToken)
          /\ UNCHANGED <<rdBuf, nread, bin>>
       \/ /\ Len(bin[c]) < binN[c]
          /\ Buffered(c) # <<>> \/ ConnHasData(c)
          /\ LET need == binN[c] - Len(bin[c])
                 k == IF need < Len(AfterFill(c)) THEN need ELSE Len(AfterFill(c))
             IN  /\ bin' = [bin EXCEPT ![c] = @ \o SubSeq(AfterFill(c), 1, k)]
                 /\ rdBuf' = [rdBuf EXCEPT ![reader[c]] =
                                 SubSeq(AfterFill(c), k + 1, Len(AfterFill(c)))]
          /\ nread' = NreadAfterFill(c)
          /\ UNCHANGED <<pc, outVars>>
    /\ UNCHANGED <<cfgVars, loopVars, exited, puts, envVars, bufioPool, rdConn, reader, bufioReleased, binN,
                   dialVars, copyPc, panicked, connClosed, cliVars, leftover,
                   agentRecv, backVars, backReadN>>

\* main.go:259-270: reader.ReadSlice('\n') looks for the delimiter in the
\* buffer, and reads more from the conn while it is not there.  (The
\* reader's buffer of 4096 bytes never fills within MaxInput.)
HandshakeText(c) ==
    /\ ~exited
    /\ pc[c] = "text"
    /\ LET i == FirstNewLine(Buffered(c))
       IN  \/ /\ i > 0
              /\ rdBuf' = [rdBuf EXCEPT ![reader[c]] = SubSeq(@, i + 1, Len(@))]
              /\ IF DecryptBase64(SubSeq(Buffered(c), 1, i))
                 THEN /\ pc' = [pc EXCEPT ![c] = "dial"]
                      /\ UNCHANGED outVars
                 ELSE HandshakeFail(c, BadAddrToken)
              /\ UNCHANGED nread
           \/ /\ i = 0
              /\ ConnHasData(c)
              /\ rdBuf' = [rdBuf EXCEPT ![reader[c]] = @ \o Unread(c)]
              /\ nread' = [nread EXCEPT ![c] = Len(cliSent[c])]
              /\ UNCHANGED <<pc, outVars>>
           \/ /\ i = 0
              /\ ConnReadErr(c)
              /\ HandshakeFail(c, codeBadReq)
              /\ UNCHANGED <<rdBuf, nread>>
    /\ UNCHANGED <<cfgVars, loopVars, exited, puts, envVars, bufioPool, rdConn, reader, bufioReleased, binN,
                   bin, dialVars, copyPc, panicked, connClosed, cliVars,
                   leftover, agentRecv, backVars, backReadN>>


\* ------------------------------------------------------------------ dial()
DialOutcomes == {"ok", "timeout", "refused"}

\* a loop that turns once too often
MoreAttemptsOffByOne(i) == i <= cfgDialRetry

\* main.go:273: the loop condition, i attempts made so far
MoreAttempts(i) == i < cfgDialRetry

\* every error retried
RetriedAnyError(o) == o # "ok"

\* main.go:278: the error of an attempt is retried
Retried(o) == o = "timeout"

\* main.go:281, the token of a dial error that is not retried
HardErrToken == codeDialErr

\* main.go:285, the token when the loop ends with an error
ExhaustedToken == codeDialTimeout

\* main.go:273-283: one turn of the loop, one net.DialTimeout.  With a
\* negative timeout the deadline of the attempt has passed when it starts,
\* and the attempt times out.
DialAttempt(c) ==
    /\ ~exited
    /\ pc[c] = "dial"
    /\ MoreAttempts(Len(dials[c]))
    /\ \E o \in DialOutcomes :
         /\ cfgDialTimeout < 0 => o = "timeout"
         /\ dials' = [dials EXCEPT ![c] = Append(@, o)]
         /\ IF o = "ok"
            THEN /\ agent' = [agent EXCEPT ![c] = "open"]
                 /\ pc' = [pc EXCEPT ![c] = "init1"]
                 /\ UNCHANGED outVars
            ELSE IF Retried(o)
            THEN UNCHANGED <<agent, pc, outVars>>
            ELSE /\ WriteToken(c, HardErrToken)
                 /\ pc' = [pc EXCEPT ![c] = "ret"]
                 /\ UNCHANGED agent
    /\ UNCHANGED <<cfgVars, loopVars, exited, puts, envVars, readerVars, hsVars, agentDeferred, deadline,
                   copyPc, panicked, connClosed, cliVars, nread, leftover,
                   agentRecv, backVars, backReadN>>

\* main.go:284-288: the loop has ended without a connection.  With an
\* error (the last attempt's) 503 is written and dial fails.  Without one
\* no attempt was made (cfgDialRetry <= 0): err and agent are both nil and
\* agentInit is called on the nil agent.
DialExhausted(c) ==
    /\ ~exited
    /\ pc[c] = "dial"
    /\ ~MoreAttempts(Len(dials[c]))
    /\ \/ /\ dials[c] # <<>>
          /\ WriteToken(c, ExhaustedToken)
          /\ pc' = [pc EXCEPT ![c] = "ret"]
       \/ /\ dials[c] = <<>>
          /\ pc' = [pc EXCEPT ![c] = "init1"]
          /\ UNCHANGED outVars
    /\ UNCHANGED <<cfgVars, loopVars, exited, puts, envVars, readerVars, hsVars, dialVars, copyPc,
                   panicked, connClosed, cliVars, nread, leftover, agentRecv,
                   backVars, backReadN>>

\* ------------------------------------------------------------- agentInit()
\* main.go:303-307: the preamble, with the byte arithmetic of the slice
\* bound and of the length byte
byteRange == 256

\* main.go:305: byte(len(addr)+1), the length of addrBuf
AddrBufLen(addr) == (Len(addr) + 1) % byteRange

\* main.go:306-307: addrBuf[0] = byte(len(addr)); copy(addrBuf[1:], addr)
AddrBuf(addr) ==
    [i \in 1..AddrBufLen(addr) |->
        IF i = 1 THEN Len(addr) % byteRange ELSE addr[i - 1]]

\* the buffered bytes forgotten
PeekedNothing(c) == <<>>

\* main.go:314: reader.Peek(reader.Buffered())
Peeked(c) == Buffered(c)

\* main.go:288-292: agentInit failed
BootstrapFail(c) ==
    /\ agent' = [agent EXCEPT ![c] = "closed"]
    /\ WriteToken(c, codeDialErr)
    /\ pc' = [pc EXCEPT ![c] = "ret"]

\* main.go:297-300: agent.SetWriteDeadline, which may return an error.  On
\* a nil agent the call panics, and the panic unwinds dial and handle
\* (recovered at main.go:177).
AgentInitDeadline(c) ==
    /\ ~exited
    /\ pc[c] = "init1"
    /\ \/ /\ agent[c] = "open"
          /\ deadline' = [deadline EXCEPT ![c] = TRUE]
          /\ pc' = [pc EXCEPT ![c] = "init2"]
          /\ UNCHANGED <<panicked, agent, outVars>>
       \/ /\ agent[c] = "open"
          /\ BootstrapFail(c)
          /\ UNCHANGED <<panicked, deadline>>
       \/ /\ agent[c] = "nil"
          /\ panicked' = [panicked EXCEPT ![c] = TRUE]
          /\ pc' = [pc EXCEPT ![c] = "ret"]
          /\ UNCHANGED <<deadline, agent, outVars>>
    /\ UNCHANGED <<cfgVars, loopVars, exited, puts, envVars, readerVars, hsVars, dials,
                   agentDeferred, copyPc, connClosed, cliVars, nread,
                   leftover, agentRecv, backVars, backReadN>>

\* main.go:302-310.  When addrBuf is empty the store to addrBuf[0] (306)
\* is out of range and panics.  A write to the backend fails when the
\* backend has closed, and may fail at any time when the deadline passes.
AgentInitPreamble(c) ==
    /\ ~exited
    /\ pc[c] = "init2"
    /\ \/ /\ AddrBufLen(RemoteAddr(c)) = 0
          /\ panicked' = [panicked EXCEPT ![c] = TRUE]
          /\ pc' = [pc EXCEPT ![c] = "ret"]
          /\ UNCHANGED <<agent, outVars, agentRecv>>
       \/ /\ AddrBufLen(RemoteAddr(c)) > 0
          /\ backState[c] = "open"
          /\ agentRecv' = [agentRecv EXCEPT ![c] = @ \o AddrBuf(RemoteAddr(c))]
          /\ pc' = [pc EXCEPT ![c] = "init3"]
          /\ UNCHANGED <<agent, outVars, panicked>>
       \/ /\ AddrBufLen(RemoteAddr(c)) > 0
          /\ BootstrapFail(c)
          /\ UNCHANGED <<agentRecv, panicked>>
    /\ UNCHANGED <<cfgVars, loopVars, exited, puts, envVars, readerVars, hsVars, dials, agentDeferred,
                   deadline, copyPc, connClosed, cliVars, nread,
                   leftover, backVars, backReadN>>

\* main.go:312-319
AgentInitLeftover(c) ==
    /\ ~exited
    /\ pc[c] = "init3"
    /\ \/ /\ backState[c] = "open"
          /\ agentRecv' = [agentRecv EXCEPT ![c] = @ \o Peeked(c)]
          /\ leftover' = [leftover EXCEPT ![c] = Peeked(c)]
          /\ pc' = [pc EXCEPT ![c] = "init4"]
          /\ UNCHANGED <<agent, outVars>>
       \/ /\ BootstrapFail(c)
          /\ UNCHANGED <<agentRecv, leftover>>
    /\ UNCHANGED <<cfgVars, loopVars, exited, puts, envVars, readerVars, hsVars, dials, agentDeferred,
                   deadline, copyPc, panicked, connClosed, cliVars, nread,
                   backVars, backReadN>>

\* main.go:321: agent.SetWriteDeadline(time.Time{})
DeadlineCleared(c) == [deadline EXCEPT ![c] = FALSE]

\* main.go:321, which may return an error; without one dial returns the
\* agent (293) and handle defers agent.Close (206)
AgentInitClear(c) ==
    /\ ~exited
    /\ pc[c] = "init4"
    /\ \/ /\ deadline' = DeadlineCleared(c)
          /\ agentDeferred' = [agentDeferred EXCEPT ![c] = TRUE]
          /\ pc' = [pc EXCEPT ![c] = "release"]
          /\ UNCHANGED <<agent, outVars>>
       \/ /\ BootstrapFail(c)
          /\ UNCHANGED <<deadline, agentDeferred>>
    /\ UNCHANGED <<cfgVars, loopVars, exited, puts, envVars, readerVars, hsVars, dials, copyPc,
                   panicked, connClosed, cliVars, nread, leftover,
                   agentRecv, backVars, backReadN>>

\* ------------------------------------------------- handle(), after dial()
\* a reader put back without Reset(nil)
ReleaseNoReset(r) == UNCHANGED <<rdConn, rdBuf>>

\* main.go:191 and 210: reader.Reset(nil) before bufioPool.Put(reader)
ReleaseReset(r) ==
    /\ rdConn' = ResetConn(r, Nil)
    /\ rdBuf' = ResetBuf(r)

\* a release that leaves the flag as it was
ReleaseUnmarked(c) == bufioReleased

\* main.go:209: bufioReleased = true
ReleaseMarked(c) == [bufioReleased EXCEPT ![c] = TRUE]

\* main.go:208-211
ReleaseReader(c) ==
    /\ ~exited
    /\ pc[c] = "release"
    /\ bufioReleased' = ReleaseMarked(c)
    /\ ReleaseReset(reader[c])
    /\ bufioPool' = bufioPool \cup {reader[c]}
    /\ puts' = [puts EXCEPT ![c] = @ + 1]
    /\ pc' = [pc EXCEPT ![c] = "ok"]
    /\ UNCHANGED <<cfgVars, loopVars, exited, envVars, reader, hsVars, dialVars, copyPc, panicked,
                   connClosed, cliVars, nread, outVars, leftover, agentRecv,
                   backVars, backReadN>>

\* main.go:213-216: conn.Write(codeOK); when it fails handle returns, else
\* the goroutine safeCopy(agent, conn) starts and handle enters io.Copy.
WriteOK(c) ==
    /\ ~exited
    /\ pc[c] = "ok"
    /\ WriteToken(c, codeOK)
    /\ IF cliState[c] = "rst"
       THEN /\ pc' = [pc EXCEPT ![c] = "ret"]
            /\ UNCHANGED copyPc
       ELSE /\ pc' = [pc EXCEPT ![c] = "relay"]
            /\ copyPc' = [copyPc EXCEPT ![c] = "run"]
    /\ UNCHANGED <<cfgVars, loopVars, exited, puts, envVars, readerVars, hsVars, dialVars, panicked,
                   connClosed, cliVars, nread, leftover, agentRecv, backVars,
                   backReadN>>

\* a turn of the copy that writes one byte less than it read
RelayChunkShort(c) == BackBytes(backReadN[c], backSentN[c] - 1)

\* main.go:217: the bytes one turn of io.Copy(conn, agent) moves
RelayChunk(c) == BackBytes(backReadN[c], backSentN[c])

\* main.go:217: io.Copy(conn, agent), in handle's own flow.  One turn reads
\* what the backend has sent and writes it to the client; the copy ends, and
\* handle returns, on the backend's EOF or a failed write to the client.
CopyAgentToConn(c) ==
    /\ ~exited
    /\ pc[c] = "relay"
    /\ \/ /\ backReadN[c] < backSentN[c]
          /\ backReadN' = [backReadN EXCEPT ![c] = backSentN[c]]
          /\ cliRecv' = ConnWrite(c, RelayChunk(c))
          /\ IF cliState[c] = "rst"
             THEN pc' = [pc EXCEPT ![c] = "ret"]
             ELSE UNCHANGED pc
       \/ /\ backReadN[c] = backSentN[c]
          /\ backState[c] = "closed"
          /\ pc' = [pc EXCEPT ![c] = "ret"]
          /\ UNCHANGED <<backReadN, cliRecv>>
    /\ UNCHANGED <<cfgVars, loopVars, exited, puts, envVars, readerVars, hsVars, dialVars, copyPc, panicked,
                   connClosed, cliVars, nread, tokens, leftover, agentRecv,
                   backVars>>

\* main.go:326: recover() in the deferred function of safeCopy
CopyRecovers == TRUE

\* a handler without recover()
HandleUnrecovered == FALSE

\* main.go:177: recover() in the deferred function of handle
HandleRecovers == TRUE

\* main.go:324-331: io.Copy(agent, conn) in the goroutine.  One turn reads
\* what is in the client socket and writes it to the backend; the copy ends
\* on a failed read (EOF, reset, conn closed by handle) or a failed write
\* (agent closed by handle, or by the backend).
\* The deferred function of 325-329 recovers a panic of io.Copy: the
\* goroutine ends and the process goes on.
safeCopy(c) ==
    /\ ~exited
    /\ \/ /\ copyPc[c] = "run"
          /\ connClosed[c] \/ ConnReadErr(c)
          /\ copyPc' = [copyPc EXCEPT ![c] = "done"]
          /\ UNCHANGED <<nread, agentRecv, exited>>
       \/ /\ copyPc[c] = "run"
          /\ ~connClosed[c]
          /\ ConnHasData(c)
          /\ nread' = [nread EXCEPT ![c] = Len(cliSent[c])]
          /\ IF agent[c] = "open" /\ backState[c] = "open"
             THEN /\ agentRecv' = [agentRecv EXCEPT ![c] = @ \o Unread(c)]
                  /\ UNCHANGED copyPc
             ELSE /\ copyPc' = [copyPc EXCEPT ![c] = "done"]
                  /\ UNCHANGED agentRecv
          /\ UNCHANGED exited
       \/ /\ copyPc[c] = "panic"
          /\ copyPc' = [copyPc EXCEPT ![c] = "recovered"]
          /\ exited' = (exited \/ ~CopyRecovers)
          /\ UNCHANGED <<nread, agentRecv>>
    /\ UNCHANGED <<cfgVars, loopVars, puts, envVars, pc, readerVars, hsVars, dialVars, panicked,
                   connClosed, cliVars, outVars, leftover, backVars, backReadN>>

\* handle returns, or unwinds from a panic: its deferred calls run, last
\* registered first: agent.Close() (main.go:206), the release of the reader
\* (189-194), conn.Close() and recover() (175-180).
HandleReturn(c) ==
    /\ ~exited
    /\ pc[c] = "ret"
    /\ agent' = [agent EXCEPT ![c] = IF agentDeferred[c] THEN "closed" ELSE @]
    /\ IF bufioReleased[c]
       THEN UNCHANGED <<bufioPool, rdConn, rdBuf, puts>>
       ELSE /\ ReleaseReset(reader[c])
            /\ bufioPool' = bufioPool \cup {reader[c]}
            /\ puts' = [puts EXCEPT ![c] = @ + 1]
    /\ connClosed' = [connClosed EXCEPT ![c] = TRUE]
    /\ exited' = (exited \/ (panicked[c] /\ ~HandleRecovers))
    /\ pc' = [pc EXCEPT ![c] = "done"]
    /\ UNCHANGED <<cfgVars, loopVars, envVars, reader, bufioReleased, hsVars, dials,
                   agentDeferred, deadline, copyPc, panicked, cliVars, nread,
                   outVars, leftover, agentRecv, backVars, backReadN>>

\* ------------------------------------------------------- the environment
Connected(c) == pc[c] # "idle" /\ ~connClosed[c]

\* The wire protocol, read off the client's stream: a Binary frame is the
\* marker 0, a length byte N and N bytes; a Text frame runs to a newline.
IsBinary(c) == Len(cliSent[c]) >= 1 /\ cliSent[c][1] = 0
IsText(c) == Len(cliSent[c]) >= 1 /\ cliSent[c][1] # 0

CompleteBinary(c) ==
    /\ IsBinary(c)
    /\ Len(cliSent[c]) >= 2
    /\ Len(cliSent[c]) - 2 >= cliSent[c][2]

CompleteText(c) == IsText(c) /\ FirstNewLine(cliSent[c]) > 0

CompleteFrame(c) == CompleteBinary(c) \/ CompleteText(c)

\* the length of the complete frame at the head of the client's stream
FrameEnd(c) ==
    IF IsBinary(c) THEN 2 + cliSent[c][2] ELSE FirstNewLine(cliSent[c])

\* The bytes the client may write next.  Until its frame is complete any
\* of ClientBytes.  The gateway never looks at a byte after the frame, so
\* after the frame the client writes the bytes PayloadByte(1),
\* PayloadByte(2), ... in this order.
NextClientBytes(c) ==
    IF CompleteFrame(c)
    THEN {PayloadByte(Len(cliSent[c]) - FrameEnd(c) + 1)}
    ELSE ClientBytes

ClientSend(c) ==
    /\ Connected(c)
    /\ cliState[c] = "open"
    /\ inLeft > 0
    /\ inLeft' = inLeft - 1
    /\ \E b \in NextClientBytes(c) : cliSent' = [cliSent EXCEPT ![c] = Append(@, b)]
    /\ UNCHANGED <<cfgVars, loopVars, exited, puts, pending, backLeft, pc, readerVars, hsVars, dialVars, copyPc,
                   panicked, connClosed, cliState, nread, outVars, leftover,
                   agentRecv, backVars, backReadN>>

\* the client shuts its write side: the gateway reads EOF after the data
ClientClose(c) ==
    /\ Connected(c)
    /\ cliState[c] = "open"
    /\ cliState' = [cliState EXCEPT ![c] = "eof"]
    /\ UNCHANGED <<cfgVars, loopVars, exited, puts, envVars, pc, readerVars, hsVars, dialVars, copyPc,
                   panicked, connClosed, cliSent, nread, outVars, leftover,
                   agentRecv, backVars, backReadN>>

\* the client resets the connection: reads and writes of the gateway fail
ClientAbort(c) ==
    /\ Connected(c)
    /\ cliState[c] # "rst"
    /\ cliState' = [cliState EXCEPT ![c] = "rst"]
    /\ UNCHANGED <<cfgVars, loopVars, exited, puts, envVars, pc, readerVars, hsVars, dialVars, copyPc,
                   panicked, connClosed, cliSent, nread, outVars, leftover,
                   agentRecv, backVars, backReadN>>

BackendSend(c) ==
    /\ agent[c] = "open"
    /\ backState[c] = "open"
    /\ backLeft > 0
    /\ backLeft' = backLeft - 1
    /\ backSentN' = [backSentN EXCEPT ![c] = @ + 1]
    /\ UNCHANGED <<cfgVars, loopVars, exited, puts, pending, inLeft, pc, readerVars, hsVars, dialVars, copyPc,
                   panicked, connClosed, cliVars, nread, outVars, leftover,
                   agentRecv, backState, backReadN>>

BackendClose(c) ==
    /\ agent[c] = "open"
    /\ backState[c] = "open"
    /\ backState' = [backState EXCEPT ![c] = "closed"]
    /\ UNCHANGED <<cfgVars, loopVars, exited, puts, envVars, pc, readerVars, hsVars, dialVars, copyPc,
                   panicked, connClosed, cliVars, nread, outVars, leftover,
                   agentRecv, backSentN, backReadN>>

\* An unexpected runtime failure in handle, at any point after the borrow
\* of the reader: the panic unwinds handle.
HandleFault(c) ==
    /\ ~exited
    /\ pc[c] \in {"hs", "binLen", "binBody", "text", "dial", "init1", "init2",
                  "init3", "init4", "release", "ok", "relay"}
    /\ panicked' = [panicked EXCEPT ![c] = TRUE]
    /\ pc' = [pc EXCEPT ![c] = "ret"]
    /\ UNCHANGED <<cfgVars, loopVars, exited, puts, envVars, readerVars, hsVars, dialVars,
                   copyPc, connClosed, cliVars, nread, outVars, leftover,
                   agentRecv, backVars, backReadN>>

\* an unexpected runtime failure in the io.Copy of the goroutine
CopyFault(c) ==
    /\ ~exited
    /\ copyPc[c] = "run"
    /\ copyPc' = [copyPc EXCEPT ![c] = "panic"]
    /\ UNCHANGED <<cfgVars, loopVars, exited, puts, envVars, pc, readerVars, hsVars,
                   dialVars, panicked, connClosed, cliVars, nread, outVars,
                   leftover, agentRecv, backVars, backReadN>>

\* ------------------------------------------------------------------- Next
Next ==
    \E c \in Conns :
        \/ Accept(c)
        \/ BorrowReader(c)
        \/ HandshakeFirst(c)
        \/ HandshakeBinaryLen(c)
        \/ HandshakeBinaryBody(c)
        \/ HandshakeText(c)
        \/ DialAttempt(c)
        \/ DialExhausted(c)
        \/ AgentInitDeadline(c)
        \/ AgentInitPreamble(c)
        \/ AgentInitLeftover(c)
        \/ AgentInitClear(c)
        \/ ReleaseReader(c)
        \/ WriteOK(c)
        \/ CopyAgentToConn(c)
        \/ safeCopy(c)
        \/ HandleReturn(c)
        \/ ClientSend(c)
        \/ ClientClose(c)
        \/ ClientAbort(c)
        \/ BackendSend(c)
        \/ BackendClose(c)

Spec == Init /\ [][Next]_vars

SpecPool == InitPool /\ [][Next]_vars

\* The accept loop alone: two connections to deliver, no handler runs.
InitLoop == InitWith(Unset, Unset, {1}, 2, 0, 0)

NextLoop ==
    \/ AcceptTemporary
    \/ AcceptFail
    \/ \E c \in Conns : Accept(c)

SpecLoop == InitLoop /\ [][NextLoop]_vars

\* One connection whose remote address has any length up to MaxAddrLen.
InitAddr == InitWith(Unset, Unset, 0..MaxAddrLen, 1, SmallInput, SmallBackend)

SpecAddr == InitAddr /\ [][Next]_vars

\* One connection under every GW_DIAL_RETRY and GW_DIAL_TIMEOUT.
InitConfig == InitWith(RetryEnv, TimeoutEnv, {1}, 1, SmallInput, SmallBackend)

SpecConfig == InitConfig /\ [][Next]_vars

\* The goroutines of the gateway are scheduled fairly: a step of handle or
\* of safeCopy that can be taken is taken.  Nothing is assumed of the
\* listener, the clients and the backends.
Fairness ==
    \A c \in Conns :
        /\ WF_vars(BorrowReader(c))
        /\ WF_vars(HandshakeFirst(c))
        /\ WF_vars(HandshakeBinaryLen(c))
        /\ WF_vars(HandshakeBinaryBody(c))
        /\ WF_vars(HandshakeText(c))
        /\ WF_vars(DialAttempt(c))
        /\ WF_vars(DialExhausted(c))
        /\ WF_vars(AgentInitDeadline(c))
        /\ WF_vars(AgentInitPreamble(c))
        /\ WF_vars(AgentInitLeftover(c))
        /\ WF_vars(AgentInitClear(c))
        /\ WF_vars(ReleaseReader(c))
        /\ WF_vars(WriteOK(c))
        /\ WF_vars(CopyAgentToConn(c))
        /\ WF_vars(safeCopy(c))
        /\ WF_vars(HandleReturn(c))

\* One connection, scheduled fairly.
InitLive == InitWith(Unset, Unset, {1}, 1, LiveInput, LiveBackend)

SpecLive == InitLive /\ [][Next]_vars /\ Fairness

\* Two connections, scheduled fairly, with runtime failures in the handlers
\* and in the copy goroutines.
InitFault == InitWith(Unset, Unset, {1}, 2, FaultInput, FaultBackend)

NextFault ==
    \/ Next
    \/ \E c \in Conns : HandleFault(c) \/ CopyFault(c)

SpecFault == InitFault /\ [][NextFault]_vars /\ Fairness


\* ================================================================ claims
\* a Binary frame that declares N and has not delivered N ciphertext bytes
ShortBinary(c) ==
    /\ IsBinary(c)
    /\ Len(cliSent[c]) = 1 \/ Len(cliSent[c]) - 2 < cliSent[c][2]

\* the ciphertext of a complete frame is accepted by the cipher
FrameAccepted(c) ==
    IF IsBinary(c)
    THEN Decrypt(SubSeq(cliSent[c], 3, FrameEnd(c)))
    ELSE DecryptBase64(SubSeq(cliSent[c], 1, FrameEnd(c)))

\* the client's bytes after its frame
AfterFrame(c) == SubSeq(cliSent[c], FrameEnd(c) + 1, Len(cliSent[c]))

\* the client's bytes after its frame that the gateway has read
ReadAfterFrame(c) == SubSeq(cliSent[c], FrameEnd(c) + 1, nread[c])

Preamble(c) == <<Len(RemoteAddr(c))>> \o RemoteAddr(c)

Returned(c) == pc[c] \in {"ret", "done"}

InHandshake(c) == pc[c] \in {"idle", "get", "hs", "binLen", "binBody", "text"}

AllTimeout(c) ==
    /\ dials[c] # <<>>
    /\ \A i \in 1..Len(dials[c]) : dials[c][i] = "timeout"

\* what the client has received is the token tok, unless it has reset
Received(c, tok) ==
    /\ tokens[c] = <<tok>>
    /\ cliState[c] # "rst" => cliRecv[c] = tok

\* ---------------------------------------------------------------------
\* C1: on every terminal path of handle() on which at least one byte was
\* read from the client, exactly one status token has been written to the
\* client before its socket is closed, and no connection ever has two.
C1_ExactlyOneToken ==
    \A c \in Conns :
        /\ Len(tokens[c]) <= 1
        /\ pc[c] = "done" /\ nread[c] > 0 =>
              Len(tokens[c]) = 1 /\ tokens[c][1] \in StatusTokens

\* ---------------------------------------------------------------------
\* C2, as stated: when the very first read of the handshake fails (no byte
\* was ever read from the client), no status token is written.
C2_NoTokenBeforeAnyByte ==
    \A c \in Conns :
        pc[c] = "done" /\ nread[c] = 0 => tokens[c] = <<>>

\* C2, amended: when the very first read of the handshake fails, handle
\* writes the token 400 to the client, once, before it closes the socket;
\* a client that has not reset its connection receives exactly 400.
C2_FirstReadFailureWrites400 ==
    \A c \in Conns :
        Returned(c) /\ nread[c] = 0 =>
            /\ Received(c, codeBadReq)
            /\ dials[c] = <<>>

C2_Witness ==
    \E c \in Conns :
        /\ pc[c] = "done"
        /\ cliSent[c] = <<>>
        /\ cliState[c] = "eof"
        /\ cliRecv[c] = codeBadReq

\* ---------------------------------------------------------------------
\* C3: for retryCount >= 1, when every dial attempt times out, dial makes
\* exactly retryCount attempts, then writes 503 and fails: there is no
\* bootstrap, no 200 and no relay.
C3_TimeoutsExhaustRetries ==
    cfgDialRetry >= 1 =>
        \A c \in Conns :
            AllTimeout(c) =>
                /\ Len(dials[c]) <= cfgDialRetry
                /\ pc[c] \in {"dial", "ret", "done"}
                /\ pc[c] = "dial" => tokens[c] = <<>>
                /\ Returned(c) =>
                      /\ Len(dials[c]) = cfgDialRetry
                      /\ Received(c, codeDialTimeout)
                /\ agent[c] = "nil"
                /\ ~deadline[c]
                /\ agentRecv[c] = <<>>
                /\ copyPc[c] = "none"
                /\ backReadN[c] = 0

C3_Witness ==
    \E c \in Conns :
        /\ cfgDialRetry >= 2
        /\ pc[c] = "done"
        /\ AllTimeout(c)
        /\ Len(dials[c]) = cfgDialRetry
        /\ cliRecv[c] = codeDialTimeout

\* ---------------------------------------------------------------------
\* C4: a dial attempt that fails with an error that is no timeout is the
\* last attempt, whatever retryCount is and however many timeouts came
\* before it: 502 is written with it and dial fails.  A backend that
\* refuses the first attempt sees exactly one attempt.
C4_HardErrorNotRetried ==
    \A c \in Conns :
        \A i \in 1..Len(dials[c]) :
            dials[c][i] = "refused" =>
                /\ i = Len(dials[c])
                /\ Returned(c)
                /\ Received(c, codeDialErr)
                /\ agent[c] = "nil"
                /\ agentRecv[c] = <<>>
                /\ copyPc[c] = "none"

C4_Witness ==
    \E c \in Conns :
        /\ pc[c] = "done"
        /\ dials[c] = <<"timeout", "refused">>
        /\ cliRecv[c] = codeDialErr

\* ---------------------------------------------------------------------
\* C5: a Binary frame that declares N and delivers fewer than N ciphertext
\* bytes (or no length byte) before EOF or an error gets 400, and no dial
\* attempt is made for the connection.
C5_ShortBinaryFrame ==
    \A c \in Conns :
        ShortBinary(c) =>
            /\ InHandshake(c) \/ Returned(c)
            /\ dials[c] = <<>>
            /\ agent[c] = "nil"
            /\ Returned(c) => Received(c, codeBadReq)

C5_Witness ==
    \E c \in Conns :
        /\ pc[c] = "done"
        /\ ShortBinary(c)
        /\ Len(cliSent[c]) >= 3
        /\ Len(bin[c]) >= 1
        /\ cliState[c] = "eof"
        /\ cliRecv[c] = codeBadReq

C6_WitnessText ==
    \E c \in Conns :
        /\ pc[c] = "done"
        /\ CompleteText(c)
        /\ FrameEnd(c) >= 2
        /\ ~FrameAccepted(c)
        /\ cliRecv[c] = codeBadAddr


\* ---------------------------------------------------------------------
\* C7: the client bytes read ahead into the bufio.Reader past the frame are
\* the first client bytes the backend receives: bootstrap writes them
\* right after the preamble and before the relay forwards anything, and
\* what the backend receives after the preamble is, byte for byte, the
\* client's stream after the frame: nothing dropped, doubled or reordered.
C7_PipelinedBytesFirst ==
    \A c \in Conns :
        /\ agentRecv[c] # <<>> =>
              /\ CompleteFrame(c)
              /\ IsPrefix(Preamble(c), agentRecv[c])
              /\ IsPrefix(agentRecv[c], Preamble(c) \o AfterFrame(c))
        /\ pc[c] = "init3" => agentRecv[c] = Preamble(c)
        /\ pc[c] \in {"init4", "release", "ok"} =>
              /\ leftover[c] = ReadAfterFrame(c)
              /\ agentRecv[c] = Preamble(c) \o leftover[c]
        /\ copyPc[c] # "none" =>
              IsPrefix(Preamble(c) \o leftover[c], agentRecv[c])
        /\ copyPc[c] = "run" =>
              agentRecv[c] = Preamble(c) \o ReadAfterFrame(c)

\* Text framing: a byte read ahead, then a byte forwarded by the relay
C7_Witness ==
    \E c \in Conns :
        /\ IsText(c)
        /\ copyPc[c] = "run"
        /\ Len(leftover[c]) >= 1
        /\ Len(agentRecv[c]) > Len(Preamble(c)) + Len(leftover[c])

\* Binary framing: a byte read ahead, then a byte forwarded by the relay
C7_WitnessBinary ==
    \E c \in Conns :
        /\ IsBinary(c)
        /\ copyPc[c] = "run"
        /\ Len(leftover[c]) >= 1
        /\ Len(agentRecv[c]) > Len(Preamble(c)) + Len(leftover[c])

\* ---------------------------------------------------------------------
\* C8: after a valid handshake to a reachable backend the client sees 200
\* before any byte of the backend, and in each direction what the relay
\* has delivered is at all times a prefix of what the source has sent.
C8_RelayByteForByte ==
    \A c \in Conns :
        /\ pc[c] = "relay" =>
              /\ CompleteFrame(c) /\ FrameAccepted(c)
              /\ dials[c][Len(dials[c])] = "ok"
              /\ cliRecv[c] = codeOK \o BackBytes(0, backReadN[c])
        /\ backReadN[c] > 0 \/ Len(cliRecv[c]) > Len(codeOK) =>
              /\ tokens[c] = <<codeOK>>
              /\ IsPrefix(codeOK, cliRecv[c])
              /\ IsPrefix(cliRecv[c], codeOK \o BackBytes(0, backSentN[c]))
        /\ copyPc[c] # "none" =>
              LET k == Len(Preamble(c)) + Len(leftover[c])
              IN  IsPrefix(SubSeq(agentRecv[c], k + 1, Len(agentRecv[c])),
                           SubSeq(cliSent[c], FrameEnd(c) + Len(leftover[c]) + 1,
                                  Len(cliSent[c])))

C8_Witness ==
    \E c \in Conns :
        /\ pc[c] = "relay"
        /\ backReadN[c] >= 2
        /\ cliRecv[c] = codeOK \o <<BackByte(1), BackByte(2)>>
        /\ Len(agentRecv[c]) > Len(Preamble(c)) + Len(leftover[c])

\* ---------------------------------------------------------------------
\* C9: within one connection the phases are ordered: the handshake has
\* succeeded before the first dial attempt, a dial has succeeded before
\* bootstrap acts on the backend, bootstrap is complete before the reader
\* goes back to the pool, the reader is back before 200 is written, 200 is
\* written before either direction of the relay copies; and no later phase
\* starts once an earlier one has failed.
BootstrapBegun(c) ==
    \/ pc[c] \in {"init2", "init3", "init4"}
    \/ deadline[c]
    \/ agentRecv[c] # <<>>
    \/ agentDeferred[c]

RelayBegun(c) == pc[c] = "relay" \/ copyPc[c] # "none" \/ backReadN[c] > 0

FailureTokens == StatusTokens \ {codeOK}

Holding(c) == reader[c] # Nil /\ ~bufioReleased[c] /\ pc[c] # "done"

C10_PoolIsolation ==
    /\ \A c \in Conns :
          Holding(c) =>
              /\ reader[c] \notin bufioPool
              /\ \A d \in Conns \ {c} : Holding(d) => reader[d] # reader[c]
              /\ rdConn[reader[c]] = c
              /\ Len(rdBuf[reader[c]]) <= nread[c]
              /\ rdBuf[reader[c]] =
                    SubSeq(cliSent[c], nread[c] - Len(rdBuf[reader[c]]) + 1, nread[c])
    /\ \A r \in bufioPool : rdBuf[r] = <<>> /\ rdConn[r] = Nil

\* the second handler reads its own bytes through the reader the first
\* returned with bytes of its own still buffered, while the first is back
C10_Witness ==
    /\ pc[1] = "done"
    /\ CompleteFrame(1)
    /\ nread[1] > FrameEnd(1)
    /\ reader[2] = reader[1]
    /\ Holding(2)
    /\ rdBuf[reader[2]] # <<>>

\* both handlers hold a reader at once
C10_WitnessConcurrent ==
    /\ Holding(1) /\ Holding(2)
    /\ rdBuf[reader[1]] # <<>>
    /\ rdBuf[reader[2]] # <<>>

\* ---------------------------------------------------------------------
RECURSIVE Pow2(_)
Pow2(n) == IF n = 0 THEN 1 ELSE 2 * Pow2(n - 1)

Min(a, b) == IF a < b THEN a ELSE b

\* the delays, in milliseconds, slept by the last call of accept()
LastSleeps == sleeps[Len(sleeps)]

\* C11: in every call of accept() the k-th consecutive temporary error is
\* followed by a sleep of min(5ms * 2^(k-1), 1s); the delays of a call start
\* at 5ms, never decrease and never exceed 1s; tempDelay is what the call
\* slept last, and it is 0 when accept returns a connection, so that the
\* first temporary error of the next call waits 5ms again.
C11_AcceptBackoff ==
    /\ \A j \in 1..Len(sleeps) :
          \A k \in 1..Len(sleeps[j]) :
              /\ sleeps[j][k] = Min(5 * Pow2(k - 1), 1000)
              /\ sleeps[j][k] <= 1000
              /\ k > 1 => sleeps[j][k] >= sleeps[j][k - 1]
    /\ tempDelay = IF LastSleeps = <<>> THEN 0 ELSE LastSleeps[Len(LastSleeps)]

\* a call that reached the cap, a connection accepted, and the first
\* temporary error of the next call
C11_Witness ==
    /\ Len(sleeps) = 2
    /\ pending = 1
    /\ Len(sleeps[1]) = 10
    /\ sleeps[1][8] = 640
    /\ sleeps[1][9] = 1000
    /\ sleeps[1][10] = 1000
    /\ sleeps[2] = <<5>>
    /\ tempDelay = 5

\* ---------------------------------------------------------------------
\* every variable of connection d, and the accept loop, as a step leaves them
OthersUntouched(c) ==
    /\ UNCHANGED <<loopVars, pending>>
    /\ \A d \in Conns \ {c} :
          /\ pc'[d] = pc[d]
          /\ copyPc'[d] = copyPc[d]
          /\ panicked'[d] = panicked[d]
          /\ connClosed'[d] = connClosed[d]
          /\ agent'[d] = agent[d]
          /\ reader'[d] = reader[d]
          /\ tokens'[d] = tokens[d]
          /\ cliRecv'[d] = cliRecv[d]
          /\ agentRecv'[d] = agentRecv[d]
          /\ nread'[d] = nread[d]
          /\ backReadN'[d] = backReadN[d]
          /\ (reader[d] # Nil /\ ~bufioReleased[d] /\ pc[d] # "done") =>
                /\ rdBuf'[reader[d]] = rdBuf[reader[d]]
                /\ rdConn'[reader[d]] = rdConn[reader[d]]

\* a step in which a panic of connection c is raised, recovered or torn down
PanicStep(c) ==
    \/ panicked'[c] /\ ~panicked[c]
    \/ panicked[c] /\ pc[c] # pc'[c]
    \/ copyPc'[c] = "panic" /\ copyPc[c] # "panic"
    \/ copyPc[c] = "panic" /\ copyPc'[c] # "panic"

\* C12: a panic in one connection's handler or copy goroutine is recovered
\* in that goroutine: the process never ends by it and the accept loop keeps
\* running; the handler that panicked returns and closes its client socket;
\* the steps that raise, recover and tear down the panic change nothing of
\* any other connection; and the other handlers and relays go on: a handler
\* that is returning returns, a copy goroutine that panicked ends, and the
\* bytes a backend has sent are delivered while the relay lasts.
C12_PanicContained ==
    /\ [](~exited /\ listening)
    /\ [](\A c \in Conns : panicked[c] => pc[c] \in {"ret", "done"})
    /\ [][\A c \in Conns : PanicStep(c) => OthersUntouched(c)]_vars
    /\ \A c \in Conns : panicked[c] ~> (pc[c] = "done" /\ connClosed[c])
    /\ \A c \in Conns : (copyPc[c] = "panic") ~> (copyPc[c] = "recovered")
    /\ \A c \in Conns :
          (pc[c] = "relay" /\ backReadN[c] < backSentN[c]) ~>
              (pc[c] # "relay" \/ backReadN[c] = backSentN[c])

\* the first handler has panicked and is torn down, and the second relays
C12_Witness ==
    /\ panicked[1]
    /\ pc[1] = "done"
    /\ connClosed[1] /\ ~connClosed[2]
    /\ pc[2] = "relay"
    /\ backReadN[2] >= 1

\* a copy goroutine has panicked and its own handler still relays
C12_WitnessCopy ==
    /\ copyPc[1] = "recovered"
    /\ pc[1] = "relay"
    /\ backReadN[1] >= 1
    /\ ~panicked[1]

\* ---------------------------------------------------------------------
\* The two directions of the relay.  safeCopy(agent, conn), the goroutine,
\* copies from the client to the backend; io.Copy(conn, agent), in handle,
\* copies from the backend to the client.
RelayStarted(c) == copyPc[c] # "none"

ClientToBackendEnded(c) == copyPc[c] \in {"done", "recovered"}

BackendToClientEnded(c) == RelayStarted(c) /\ Returned(c)

BothClosed(c) == connClosed[c] /\ agent[c] = "closed"

\* C13: during relay, whichever direction ends first, handle's cleanup then
\* closes the client socket and the backend socket and the other direction
\* ends as well.
C13_EitherEndClosesBoth ==
    \A c \in Conns :
        (ClientToBackendEnded(c) \/ BackendToClientEnded(c)) ~>
            (BothClosed(c) /\ ClientToBackendEnded(c) /\ pc[c] = "done")

\* the half of C13 the code has: when the copy from the backend to the
\* client ends first, both sockets are closed and the goroutine ends
C13_BackendEndClosesBoth ==
    \A c \in Conns :
        BackendToClientEnded(c) ~>
            (BothClosed(c) /\ ClientToBackendEnded(c) /\ pc[c] = "done")

\* ---------------------------------------------------------------------
\* C14: the copy from the client to the backend runs in handle's own flow,
\* the other one in the goroutine: handle is in its relay exactly while the
\* copy from the client to the backend runs, and returns when it ends.
C14_HandleCopiesClientToBackend ==
    \A c \in Conns :
        RelayStarted(c) => (pc[c] = "relay" <=> ~ClientToBackendEnded(c))

\* ---------------------------------------------------------------------
RelayActive(c) ==
    \/ pc[c] = "relay"
    \/ RelayStarted(c)
    \/ \E i \in 1..Len(tokens[c]) : tokens[c][i] = codeOK

InBootstrap(c) == pc[c] \in {"init1", "init2", "init3", "init4"}

\* C15: the backend connection carries a write deadline during bootstrap
\* only: it has none while the relay is active, and wherever the deadline
\* was set and not cleared the backend connection is closed and the relay
\* never starts.
C15_DeadlineOnlyInBootstrap ==
    \A c \in Conns :
        /\ RelayActive(c) => ~deadline[c]
        /\ deadline[c] /\ ~InBootstrap(c) =>
              /\ Returned(c)
              /\ agent[c] = "closed"
              /\ ~RelayActive(c)

\* ---------------------------------------------------------------------
\* dial has connected and bootstrap has not completed
BootstrapFailed(c) == agent[c] # "nil" /\ Returned(c) /\ ~agentDeferred[c]

\* C16: when a step of bootstrap fails after a successful dial, the backend
\* connection is closed, 502 is written to the client, and neither 200 nor
\* a relay follows.
C16_BootstrapFailure ==
    \A c \in Conns :
        BootstrapFailed(c) =>
            /\ agent[c] = "closed"
            /\ Received(c, codeDialErr)
            /\ ~RelayActive(c)
            /\ bufioReleased[c] = FALSE

\* ---------------------------------------------------------------------
\* C17: for a remote address of L bytes, 0 <= L <= 255, the slice bound of
\* the preamble is L+1 (it does not wrap and no index is out of range), and
\* the preamble the backend receives is the byte L and then the L bytes of
\* the address.
C17_PreambleExact ==
    \A c \in Conns :
        /\ pc[c] = "init2" =>
              /\ AddrBufLen(RemoteAddr(c)) = Len(RemoteAddr(c)) + 1
              /\ AddrBuf(RemoteAddr(c)) = Preamble(c)
        /\ agentRecv[c] # <<>> => IsPrefix(Preamble(c), agentRecv[c])
        /\ InBootstrap(c) \/ BootstrapFailed(c) => ~panicked[c]

\* ---------------------------------------------------------------------
\* C18: after config(), for every GW_DIAL_RETRY and GW_DIAL_TIMEOUT,
\* retryCount >= 1 and dialTimeout > 0, and when dial() is past its loop it
\* has made an attempt and holds a backend connection or the error of its
\* last attempt.
C18_DialPolicy ==
    /\ cfgDialRetry >= 1
    /\ cfgDialTimeout > 0
    /\ \A c \in Conns :
          /\ InBootstrap(c) => dials[c] # <<>> /\ agent[c] # "nil"
          /\ panicked[c] => dials[c] # <<>>

\* ---------------------------------------------------------------------
\* C19: when a handler has terminated, by a return or by a recovered panic,
\* its client socket is closed and the backend connection it dialed, if
\* any, is closed.
C19_NoSocketLeftOpen ==
    \A c \in Conns :
        pc[c] = "done" => connClosed[c] /\ agent[c] \in {"nil", "closed"}

\* ---------------------------------------------------------------------
\* where handle reads from or peeks at its reader
UsesReader(c) == pc[c] \in {"hs", "binLen", "binBody", "text", "init3"}

\* C20: a handler puts its reader back into the pool exactly once on every
\* terminal path, a return after a failed handshake, dial or bootstrap, the
\* success path, or a recovered panic; the reader it puts back has been
\* reset; and it neither reads from nor peeks at the reader afterwards.
C20_ReaderReturnedOnce ==
    \A c \in Conns :
        /\ puts[c] <= 1
        /\ pc[c] = "done" => puts[c] = 1
        /\ puts[c] = 1 <=> (bufioReleased[c] \/ pc[c] = "done")
        /\ puts[c] = 1 => ~UsesReader(c)
        /\ puts[c] = 1 /\ reader[c] \in bufioPool =>
              rdBuf[reader[c]] = <<>> /\ rdConn[reader[c]] = Nil

\* the success path: the reader went back before 200, the relay has run
\* and handle has returned
C20_Witness ==
    \E c \in Conns :
        /\ pc[c] = "done"
        /\ tokens[c] = <<codeOK>>
        /\ bufioReleased[c]
        /\ puts[c] = 1
        /\ nread[c] > FrameEnd(c)
        /\ reader[c] \in bufioPool

\* a recovered panic: the reader went back in the deferred call
C20_WitnessPanic ==
    \E c \in Conns :
        /\ pc[c] = "done"
        /\ panicked[c]
        /\ ~bufioReleased[c]
        /\ puts[c] = 1
        /\ reader[c] \in bufioPool

====
